---- MODULE Spec2Model ----
(***************************************************************************)
(* nu_plugin_plist: the transcoder between plist values (PlistValue) and   *)
(* Nushell values (NuValue) of src/src/nu_plist.rs.                        *)
(*                                                                         *)
(* Integers wider than TLC's own are kept exact as bit strings: a natural  *)
(* number is the sequence of its binary digits, most significant first,    *)
(* without leading zeros (zero is the empty sequence).                     *)
(***************************************************************************)
EXTENDS Integers, Sequences, FiniteSets, TLC

VARIABLES name, input, output, stage, origin

vars == <<name, input, output, stage, origin>>

(***************************************************************************)
(* Bounds of the model.                                                    *)
(***************************************************************************)
\* The largest number of nodes (leaves and containers) of an input tree.
MaxNodes == 3

(***************************************************************************)
(* Bit-string arithmetic.                                                  *)
(***************************************************************************)
RECURSIVE Zeros(_)
Zeros(n) == IF n <= 0 THEN <<>> ELSE <<0>> \o Zeros(n - 1)

RECURSIVE Ones(_)
Ones(n) == IF n <= 0 THEN <<>> ELSE <<1>> \o Ones(n - 1)

RECURSIVE Strip(_)
Strip(b) == IF b = <<>> THEN <<>> ELSE IF Head(b) = 1 THEN b ELSE Strip(Tail(b))

\* the w binary digits of the small number n
RECURSIVE Bits(_, _)
Bits(n, w) == IF w = 0 THEN <<>> ELSE Bits(n \div 2, w - 1) \o <<n % 2>>

\* the natural number whose base-65536 digits are the elements of limbs
RECURSIVE Concat16(_)
Concat16(limbs) ==
    IF limbs = <<>> THEN <<>> ELSE Bits(Head(limbs), 16) \o Concat16(Tail(limbs))

Nat16(limbs) == Strip(Concat16(limbs))

Pow2(n) == <<1>> \o Zeros(n)

\* a < b, for two bit strings of the same length
RECURSIVE LexLess(_, _)
LexLess(a, b) ==
    IF a = <<>> THEN FALSE
    ELSE IF Head(a) # Head(b) THEN Head(a) < Head(b)
    ELSE LexLess(Tail(a), Tail(b))

NatLess(a, b) ==
    IF Len(a) # Len(b) THEN Len(a) < Len(b) ELSE LexLess(a, b)

NatLe(a, b) == a = b \/ NatLess(a, b)

\* b + 1 on a bit string of fixed width; the carry out of the top is dropped
RECURSIVE IncFixed(_)
IncFixed(b) ==
    IF b = <<>> THEN <<>>
    ELSE IF b[Len(b)] = 0 THEN SubSeq(b, 1, Len(b) - 1) \o <<1>>
    ELSE IncFixed(SubSeq(b, 1, Len(b) - 1)) \o <<0>>

NatInc(b) == IF b = Ones(Len(b)) THEN Pow2(Len(b)) ELSE IncFixed(b)

\* a + b on naturals: the carry into digit i comes from a lower digit where both
\* have a 1, through digits where one of them has
NatAdd(a, b) ==
    LET w == IF Len(a) > Len(b) THEN Len(a) ELSE Len(b)
        x == Zeros(w - Len(a)) \o a
        y == Zeros(w - Len(b)) \o b
        Carry(i) == \E j \in (i + 1)..w :
                        /\ x[j] + y[j] = 2
                        /\ \A m \in (i + 1)..(j - 1) : x[m] + y[m] = 1
        C(i) == IF Carry(i) THEN 1 ELSE 0
    IN  Strip(<<C(0)>> \o [i \in 1..w |-> (x[i] + y[i] + C(i)) % 2])

\* the number of trailing zero digits
RECURSIVE TrailingZeros(_)
TrailingZeros(b) ==
    IF b = <<>> \/ b[Len(b)] = 1 THEN 0
    ELSE 1 + TrailingZeros(SubSeq(b, 1, Len(b) - 1))

\* the number of significant binary digits: from the first 1 to the last 1
SignificantBits(b) == Len(b) - TrailingZeros(b)

(***************************************************************************)
(* Signed integers: plist::Integer holds any value of i64 or u64.          *)
(***************************************************************************)
I64Bits == 64
F64MantBits == 53
F64FracBits == 52
F64ExpBias == 1023

Pos(mag) == [neg |-> FALSE, mag |-> mag]
Neg(mag) == [neg |-> mag # <<>>, mag |-> mag]

I64Min == Neg(Pow2(I64Bits - 1))
I64Max == Pos(Ones(I64Bits - 1))
U64Max == Ones(I64Bits)

IntLe(a, b) ==
    IF a.neg # b.neg THEN a.neg
    ELSE IF a.neg THEN NatLe(b.mag, a.mag)
    ELSE NatLe(a.mag, b.mag)


\* i64: the 64 binary digits of the two's complement pattern
I64Pattern(mag) == Zeros(I64Bits - Len(mag)) \o mag

Invert(b) == [k \in 1..Len(b) |-> 1 - b[k]]

\* two's complement negation within 64 digits
I64Negate(p) == IncFixed(Invert(p))

\* the numeric value of an i64 pattern
I64Value(p) == IF p[1] = 1 THEN Neg(Strip(I64Negate(p))) ELSE Pos(Strip(p))

\* plist::Integer::from(i64), the widening of convert_nu_value
IntegerFromI64Unsigned(val) == Pos(Strip(val))

IntegerFromI64(val) == I64Value(val)

\* the cast `value as i64`: the low 64 digits of the two's complement pattern
CastI64(i) ==
    LET low == IF Len(i.mag) > I64Bits
               THEN SubSeq(i.mag, Len(i.mag) - I64Bits + 1, Len(i.mag))
               ELSE I64Pattern(i.mag)
    IN  IF i.neg THEN I64Negate(low) ELSE low

Some(v) == [some |-> TRUE, v |-> v]
None == [some |-> FALSE]

\* a faulty as_signed: the range test of as_unsigned followed by the same cast
as_signed_unchecked(i) ==
    IF IntLe(Pos(<<>>), i) /\ IntLe(i, Pos(U64Max)) THEN Some(CastI64(i)) ELSE None

\* plist::Integer::as_signed
as_signed(i) ==
    IF IntLe(I64Min, i) /\ IntLe(i, I64Max) THEN Some(CastI64(i)) ELSE None

(***************************************************************************)
(* f64: sign, biased exponent and the 52 fraction digits of IEEE 754.      *)
(***************************************************************************)
F64(sign, exp, frac) == [sign |-> sign, exp |-> exp, frac |-> frac]

\* f64::from_bits: the 64 digits of the identifier read as an IEEE 754 pattern
U64BitsAsF64(uid) ==
    LET p == I64Pattern(uid)
        e == SubSeq(p, 2, 12)
        EVal[k \in 0..11] == IF k = 0 THEN 0 ELSE 2 * EVal[k - 1] + e[k]
    IN  F64(p[1], EVal[11], SubSeq(p, 13, I64Bits))

\* the cast `uid.get() as f64`: the nearest f64, ties to the even mantissa
U64AsF64(uid) ==
    LET n == Len(uid)
    IN  IF n = 0 THEN F64(0, 0, Zeros(F64FracBits))
        ELSE IF n <= F64MantBits
        THEN F64(0, F64ExpBias + n - 1, Tail(uid) \o Zeros(F64MantBits - n))
        ELSE LET top == SubSeq(uid, 1, F64MantBits)
                 guard == uid[F64MantBits + 1]
                 sticky == \E k \in (F64MantBits + 2)..n : uid[k] = 1
                 roundUp == guard = 1 /\ (sticky \/ top[F64MantBits] = 1)
             IN  IF ~roundUp THEN F64(0, F64ExpBias + n - 1, Tail(top))
                 ELSE IF top = Ones(F64MantBits)
                 THEN F64(0, F64ExpBias + n, Zeros(F64FracBits))
                 ELSE F64(0, F64ExpBias + n - 1, Tail(IncFixed(top)))

(***************************************************************************)
(* Time.  A SystemTime (and so a plist Date) is a count of seconds since   *)
(* the UNIX epoch, rounded down, and the nanoseconds above it.  A chrono   *)
(* DateTime is the UTC timestamp in the same form with the offset, in      *)
(* seconds east of UTC, of its time zone.                                  *)
(***************************************************************************)
NanosPerSec == 1000 * 1000 * 1000

Timespec(sec, nsec) == [tv_sec |-> sec, tv_nsec |-> nsec]
Duration(sec, nsec) == [secs |-> sec, nanos |-> nsec]
DateTime(sec, nsec, offset) == [secs |-> sec, nanos |-> nsec, offset |-> offset]

UNIX_EPOCH == Timespec(0, 0)

\* SystemTime + Duration and SystemTime - Duration
TimeAdd(t, d) ==
    LET n == t.tv_nsec + d.nanos
    IN  IF n >= NanosPerSec THEN Timespec(t.tv_sec + d.secs + 1, n - NanosPerSec)
        ELSE Timespec(t.tv_sec + d.secs, n)

TimeSub(t, d) ==
    LET n == t.tv_nsec - d.nanos
    IN  IF n < 0 THEN Timespec(t.tv_sec - d.secs - 1, n + NanosPerSec)
        ELSE Timespec(t.tv_sec - d.secs, n)

\* SystemTime::duration_since(UNIX_EPOCH): Ok(t - epoch), or Err(epoch - t)
duration_since_epoch(t) ==
    IF t.tv_sec >= 0 THEN [ok |-> TRUE, dur |-> Duration(t.tv_sec, t.tv_nsec)]
    ELSE IF t.tv_nsec = 0 THEN [ok |-> FALSE, dur |-> Duration(-t.tv_sec, 0)]
    ELSE [ok |-> FALSE, dur |-> Duration(-t.tv_sec - 1, NanosPerSec - t.tv_nsec)]

\* DateTime<Utc>::from(SystemTime)
DateTimeUtcFromSystemTime(t) ==
    LET r == duration_since_epoch(t)
    IN  IF r.ok THEN DateTime(r.dur.secs, r.dur.nanos, 0)
        ELSE IF r.dur.nanos = 0 THEN DateTime(-r.dur.secs, 0, 0)
        ELSE DateTime(-r.dur.secs - 1, NanosPerSec - r.dur.nanos, 0)

\* a faulty SystemTime::from(DateTime): the local wall clock taken as the instant
SystemTimeFromLocalDateTime(dt) ==
    TimeAdd(UNIX_EPOCH, Duration(dt.secs + dt.offset, dt.nanos))

\* SystemTime::from(DateTime<FixedOffset>): the UTC timestamp; the offset is not read
SystemTimeFromDateTime(dt) ==
    IF dt.secs < 0
    THEN TimeAdd(TimeSub(UNIX_EPOCH, Duration(-dt.secs, 0)), Duration(0, dt.nanos))
    ELSE TimeAdd(UNIX_EPOCH, Duration(dt.secs, dt.nanos))

\* plist::Date wraps a SystemTime
PlistDate(t) == [inner |-> t]

\* convert_date
convert_date(plist_date) ==
    LET plist_sys_time == plist_date.inner
        utc_date == DateTimeUtcFromSystemTime(plist_sys_time)
        utc_offset == utc_date.offset
    IN  DateTime(utc_date.secs, utc_date.nanos, utc_offset)

(***************************************************************************)
(* The two value models.  Spans of values are left out: Nushell compares   *)
(* values without them.                                                    *)
(***************************************************************************)
PlistString(s) == [plist |-> "String", s |-> s]
PlistBoolean(b) == [plist |-> "Boolean", b |-> b]
PlistReal(r) == [plist |-> "Real", r |-> r]
PlistDateValue(d) == [plist |-> "Date", d |-> d]
PlistInteger(i) == [plist |-> "Integer", i |-> i]
PlistUid(uid) == [plist |-> "Uid", uid |-> uid]
PlistData(data) == [plist |-> "Data", data |-> data]
PlistArray(arr) == [plist |-> "Array", arr |-> arr]
PlistDictionary(dict) == [plist |-> "Dictionary", dict |-> dict]
\* plist::Value is non_exhaustive: a variant the match does not name
PlistOther == [plist |-> "Other"]

NuString(val) == [nu |-> "String", str |-> val]
NuBool(val) == [nu |-> "Bool", bool |-> val]
NuFloat(val) == [nu |-> "Float", float |-> val]
NuInt(val) == [nu |-> "Int", int |-> val]
NuFilesize(val) == [nu |-> "Filesize", filesize |-> val]
NuBinary(val) == [nu |-> "Binary", bin |-> val]
NuDate(val) == [nu |-> "Date", date |-> val]
NuList(vals) == [nu |-> "List", vals |-> vals]
NuRecord(rec) == [nu |-> "Record", rec |-> rec]
\* a LazyRecord is modelled by what its collect() returns
NuLazyRecord(collected) == [nu |-> "LazyRecord", collected |-> collected]
NuNothing == [nu |-> "Nothing"]
NuRange == [nu |-> "Range"]
NuClosure == [nu |-> "Closure"]
NuError == [nu |-> "Error"]
NuDuration == [nu |-> "Duration"]
NuCellPath == [nu |-> "CellPath"]

\* nu_protocol::Record: parallel columns and values
Record(cols, vals) == [cols |-> cols, vals |-> vals]

Ok(v) == [ok |-> TRUE, val |-> v]
Err(e) == [ok |-> FALSE, err |-> e]

\* build_label_error
build_label_error(msg, span) ==
    [label |-> "ERROR from plugin", msg |-> msg, span |-> span]

\* LabeledError::from(ShellError), the conversion the ? operator applies
LabeledErrorFromShellError(e) == [label |-> e, msg |-> [shell |-> e], span |-> "none"]

\* Record::from_raw_cols_vals
from_raw_cols_vals(cols, vals) ==
    IF Len(cols) = Len(vals) THEN Ok(Record(cols, vals))
    ELSE Err("RecordColsValsMismatch")

\* a faulty collect: the failing items are skipped
RECURSIVE collect_lossy(_)
collect_lossy(rs) ==
    IF rs = <<>> THEN Ok(<<>>)
    ELSE LET rest == collect_lossy(Tail(rs))
         IN  IF Head(rs).ok THEN Ok(<<Head(rs).val>> \o rest.val) ELSE rest

\* a faulty collect: the last error is returned
RECURSIVE collect_last(_)
collect_last(rs) ==
    IF rs = <<>> THEN Ok(<<>>)
    ELSE LET rest == collect_last(Tail(rs))
         IN  IF ~rest.ok THEN rest
             ELSE IF Head(rs).ok THEN Ok(<<Head(rs).val>> \o rest.val)
             ELSE Head(rs)

\* Iterator::collect::<Result<Vec<_>, _>>(): the items in order, up to the first Err
RECURSIVE collect(_)
collect(rs) ==
    IF rs = <<>> THEN Ok(<<>>)
    ELSE IF ~Head(rs).ok THEN Head(rs)
    ELSE LET rest == collect(Tail(rs))
         IN  IF rest.ok THEN Ok(<<Head(rs).val>> \o rest.val) ELSE rest

\* plist::Dictionary is an insertion-ordered map: a sequence of entries
Entry(k, v) == [key |-> k, value |-> v]

keys(dict) == [k \in 1..Len(dict) |-> dict[k].key]
\* a faulty values: the values in the opposite order
values_reversed(dict) == [k \in 1..Len(dict) |-> dict[Len(dict) + 1 - k].value]

values(dict) == [k \in 1..Len(dict) |-> dict[k].value]

\* Dictionary::insert: a key already present keeps its place and takes the value
insert(dict, k, v) ==
    IF \E j \in 1..Len(dict) : dict[j].key = k
    THEN [j \in 1..Len(dict) |-> IF dict[j].key = k THEN Entry(k, v) ELSE dict[j]]
    ELSE Append(dict, Entry(k, v))

\* Dictionary::from_iter
RECURSIVE from_iter(_, _)
from_iter(dict, entries) ==
    IF entries = <<>> THEN dict
    ELSE from_iter(insert(dict, Head(entries).key, Head(entries).value), Tail(entries))

(***************************************************************************)
(* The decoder.                                                            *)
(***************************************************************************)
RECURSIVE convert_plist_value(_, _)

\* convert_array
convert_array(plist_array, span) ==
    collect([k \in 1..Len(plist_array) |-> convert_plist_value(plist_array[k], span)])

\* convert_dict
convert_dict(dict, span) ==
    LET cols == keys(dict)
        vals == collect([k \in 1..Len(dict) |-> convert_plist_value(values(dict)[k], span)])
    IN  IF ~vals.ok THEN vals
        ELSE LET rec == from_raw_cols_vals(cols, vals.val)
             IN  IF ~rec.ok THEN Err(LabeledErrorFromShellError(rec.err))
                 ELSE Ok(NuRecord(rec.val))

\* a faulty convert_plist_value: Data is returned as the string of its bytes
convert_plist_value_lossy_data(plist_val, span) ==
    CASE plist_val.plist = "String" -> Ok(NuString(plist_val.s))
      [] plist_val.plist = "Boolean" -> Ok(NuBool(plist_val.b))
      [] plist_val.plist = "Real" -> Ok(NuFloat(plist_val.r))
      [] plist_val.plist = "Date" -> Ok(NuDate(convert_date(plist_val.d)))
      [] plist_val.plist = "Integer" ->
            LET signed == as_signed(plist_val.i)
            IN  IF ~signed.some
                THEN Err(build_label_error(
                         [text |-> "Cannot convert to i64", i |-> plist_val.i], span))
                ELSE Ok(NuInt(signed.v))
      [] plist_val.plist = "Uid" -> Ok(NuFloat(U64AsF64(plist_val.uid)))
      [] plist_val.plist = "Data" -> Ok(NuString(plist_val.data))
      [] plist_val.plist = "Array" ->
            LET arr == convert_array(plist_val.arr, span)
            IN  IF ~arr.ok THEN arr ELSE Ok(NuList(arr.val))
      [] plist_val.plist = "Dictionary" -> convert_dict(plist_val.dict, span)
      [] OTHER -> Ok(NuNothing)

\* convert_plist_value
convert_plist_value(plist_val, span) ==
    CASE plist_val.plist = "String" -> Ok(NuString(plist_val.s))
      [] plist_val.plist = "Boolean" -> Ok(NuBool(plist_val.b))
      [] plist_val.plist = "Real" -> Ok(NuFloat(plist_val.r))
      [] plist_val.plist = "Date" -> Ok(NuDate(convert_date(plist_val.d)))
      [] plist_val.plist = "Integer" ->
            LET signed == as_signed(plist_val.i)
            IN  IF ~signed.some
                THEN Err(build_label_error(
                         [text |-> "Cannot convert to i64", i |-> plist_val.i], span))
                ELSE Ok(NuInt(signed.v))
      [] plist_val.plist = "Uid" -> Ok(NuFloat(U64AsF64(plist_val.uid)))
      [] plist_val.plist = "Data" -> Ok(NuBinary(plist_val.data))
      [] plist_val.plist = "Array" ->
            LET arr == convert_array(plist_val.arr, span)
            IN  IF ~arr.ok THEN arr ELSE Ok(NuList(arr.val))
      [] plist_val.plist = "Dictionary" -> convert_dict(plist_val.dict, span)
      [] OTHER -> Ok(NuNothing)

(***************************************************************************)
(* The encoder.                                                            *)
(***************************************************************************)
RECURSIVE convert_nu_value(_)

\* convert_nu_dict
convert_nu_dict(record) ==
    LET entries == collect([k \in 1..Len(record.cols) |->
                       LET v == convert_nu_value(record.vals[k])
                       IN  IF v.ok THEN Ok(Entry(record.cols[k], v.val)) ELSE v])
    IN  IF ~entries.ok THEN entries
        ELSE Ok(PlistDictionary(from_iter(<<>>, entries.val)))

\* Value::as_record
as_record(v) == IF v.nu = "Record" THEN Ok(v.rec) ELSE Err("CantConvert")

\* a faulty convert_nu_value: a variant without a mapping becomes an empty String
convert_nu_value_lenient(nu_val) ==
    LET span == "test_data"
    IN  CASE nu_val.nu = "String" -> Ok(PlistString(nu_val.str))
          [] nu_val.nu = "Bool" -> Ok(PlistBoolean(nu_val.bool))
          [] nu_val.nu = "Float" -> Ok(PlistReal(nu_val.float))
          [] nu_val.nu = "Int" -> Ok(PlistInteger(IntegerFromI64(nu_val.int)))
          [] nu_val.nu = "Binary" -> Ok(PlistData(nu_val.bin))
          [] nu_val.nu = "Record" -> convert_nu_dict(nu_val.rec)
          [] nu_val.nu = "List" ->
                LET vals == collect([k \in 1..Len(nu_val.vals) |->
                                        convert_nu_value(nu_val.vals[k])])
                IN  IF ~vals.ok THEN vals ELSE Ok(PlistArray(vals.val))
          [] nu_val.nu = "Date" ->
                Ok(PlistDateValue(PlistDate(SystemTimeFromDateTime(nu_val.date))))
          [] nu_val.nu = "LazyRecord" ->
                LET collected == nu_val.collected
                IN  IF ~collected.ok THEN Err(LabeledErrorFromShellError(collected.err))
                    ELSE LET record == as_record(collected.val)
                         IN  IF ~record.ok
                             THEN Err(build_label_error([shell |-> record.err], span))
                             ELSE convert_nu_dict(record.val)
          [] nu_val.nu = "Filesize" -> Ok(PlistInteger(IntegerFromI64(nu_val.filesize)))
          [] OTHER -> Ok(PlistString(""))

\* convert_nu_value
convert_nu_value(nu_val) ==
    LET span == "test_data"
    IN  CASE nu_val.nu = "String" -> Ok(PlistString(nu_val.str))
          [] nu_val.nu = "Bool" -> Ok(PlistBoolean(nu_val.bool))
          [] nu_val.nu = "Float" -> Ok(PlistReal(nu_val.float))
          [] nu_val.nu = "Int" -> Ok(PlistInteger(IntegerFromI64(nu_val.int)))
          [] nu_val.nu = "Binary" -> Ok(PlistData(nu_val.bin))
          [] nu_val.nu = "Record" -> convert_nu_dict(nu_val.rec)
          [] nu_val.nu = "List" ->
                LET vals == collect([k \in 1..Len(nu_val.vals) |->
                                        convert_nu_value(nu_val.vals[k])])
                IN  IF ~vals.ok THEN vals ELSE Ok(PlistArray(vals.val))
          [] nu_val.nu = "Date" ->
                Ok(PlistDateValue(PlistDate(SystemTimeFromDateTime(nu_val.date))))
          [] nu_val.nu = "LazyRecord" ->
                LET collected == nu_val.collected
                IN  IF ~collected.ok THEN Err(LabeledErrorFromShellError(collected.err))
                    ELSE LET record == as_record(collected.val)
                         IN  IF ~record.ok
                             THEN Err(build_label_error([shell |-> record.err], span))
                             ELSE convert_nu_dict(record.val)
          [] nu_val.nu = "Filesize" -> Ok(PlistInteger(IntegerFromI64(nu_val.filesize)))
          [] OTHER -> Err(build_label_error(
                          [text |-> "is not convertible", value |-> nu_val], span))

(***************************************************************************)
(* The inputs.  Scalars come from sample sets that hold the boundary       *)
(* values; trees are all the trees of at most MaxNodes nodes whose leaves  *)
(* come from a smaller sample.                                             *)
(***************************************************************************)
NatSamples ==
    { <<>>, <<1>>, Nat16(<<7>>), Nat16(<<42>>), Nat16(<<188, 24910>>),  \* 12345678
      Pow2(F64MantBits - 1), Ones(F64MantBits), Pow2(F64MantBits),
      NatInc(Pow2(F64MantBits)), NatInc(NatInc(Pow2(F64MantBits))),
      NatInc(NatInc(NatInc(Pow2(F64MantBits)))),
      Nat16(<<16393, 7864, 20971, 34079>>),     \* the bit pattern of 3.14
      Ones(I64Bits - 2), Ones(I64Bits - 1), Pow2(I64Bits - 1),
      NatInc(Pow2(I64Bits - 1)), Ones(I64Bits - 1) \o <<0>>, U64Max }

\* plist::Integer holds an i64 or a u64
IntegerSamples ==
    { Pos(m) : m \in NatSamples } \cup
    { Neg(m) : m \in { n \in NatSamples : NatLe(n, Pow2(I64Bits - 1)) } }

I64Samples ==
    { I64Pattern(<<>>), I64Pattern(<<1>>), I64Pattern(Nat16(<<42>>)),
      I64Pattern(Nat16(<<188, 24910>>)), I64Pattern(Pow2(F64MantBits)),
      <<0>> \o Ones(I64Bits - 1), <<0, 1>> \o Zeros(I64Bits - 2),
      Ones(I64Bits), Ones(I64Bits - 1) \o <<0>>, <<1>> \o Zeros(I64Bits - 1),
      <<1>> \o Zeros(I64Bits - 2) \o <<1>>, <<1, 0>> \o Ones(I64Bits - 2) }

F64Samples ==
    { F64(0, 0, Zeros(F64FracBits)), F64(1, 0, Zeros(F64FracBits)),
      F64(0, F64ExpBias, Zeros(F64FracBits)),                          \* 1.0
      F64(0, 1024, Bits(9, 4) \o Concat16(<<7864, 20971, 34079>>)),   \* 3.14
      F64(1, 1022, Zeros(F64FracBits)),                                \* -0.5
      F64(0, 2047, Zeros(F64FracBits)),                                \* infinity
      F64(0, 2047, <<1>> \o Zeros(F64FracBits - 1)) }                  \* NaN

StringSamples == { "", "a", "hello" }
DataSamples == { <<>>, <<65, 66, 67>>, <<0, 255>> }
TimeSamples ==
    { Timespec(sec, nsec) : sec \in { -86400, -1, 0, 1, 978307200 },
                            nsec \in { 0, 1, 999999999 } }
OffsetSamples == { -18000, 0, 3600 }

PlistLeaves ==
    { PlistString(s) : s \in StringSamples } \cup
    { PlistBoolean(b) : b \in BOOLEAN } \cup
    { PlistReal(r) : r \in F64Samples } \cup
    { PlistDateValue(PlistDate(t)) : t \in TimeSamples } \cup
    { PlistInteger(i) : i \in IntegerSamples } \cup
    { PlistUid(u) : u \in NatSamples } \cup
    { PlistData(d) : d \in DataSamples } \cup
    { PlistOther }

PlistElemLeaves ==
    { PlistString("a"), PlistInteger(Pos(Nat16(<<42>>))), PlistInteger(I64Min),
      PlistInteger(Pos(Pow2(I64Bits - 1))), PlistInteger(Pos(U64Max)),
      PlistUid(Nat16(<<7>>)), PlistDateValue(PlistDate(Timespec(-1, 1))), PlistOther }

NuLeaves ==
    { NuString(s) : s \in StringSamples } \cup
    { NuBool(b) : b \in BOOLEAN } \cup
    { NuFloat(r) : r \in F64Samples } \cup
    { NuInt(i) : i \in I64Samples } \cup
    { NuFilesize(i) : i \in I64Samples } \cup
    { NuBinary(d) : d \in DataSamples } \cup
    { NuDate(DateTime(t.tv_sec, t.tv_nsec, o)) : t \in TimeSamples, o \in OffsetSamples } \cup
    { NuNothing, NuRange, NuClosure, NuError, NuDuration, NuCellPath } \cup
    { NuLazyRecord(Err("collect failed")), NuLazyRecord(Ok(NuInt(I64Pattern(<<1>>)))) }

NuElemLeaves ==
    { NuString("a"), NuInt(Ones(I64Bits)), NuFilesize(I64Pattern(Nat16(<<1024>>))),
      NuDate(DateTime(1, 1, 3600)), NuNothing, NuRange,
      NuLazyRecord(Err("collect failed")), NuLazyRecord(Ok(NuInt(I64Pattern(<<1>>)))) }

\* the keys of a container of n entries, in an order that is not the sorted one
KeyPool == <<"b", "a", "d", "c", "f", "e", "h", "g">>
KeysOf(n) == SubSeq(KeyPool, 1, n)

RECURSIVE PlistTrees(_), PlistForests(_)
\* the plist trees of exactly n nodes
PlistTrees(n) ==
    IF n <= 0 THEN {}
    ELSE (IF n = 1 THEN PlistElemLeaves ELSE {}) \cup
         { PlistArray(f) : f \in PlistForests(n - 1) } \cup
         { PlistDictionary([k \in 1..Len(f) |-> Entry(KeysOf(Len(f))[k], f[k])]) :
               f \in PlistForests(n - 1) }
\* the sequences of plist trees of n nodes in all
PlistForests(n) ==
    IF n <= 0 THEN { <<>> }
    ELSE UNION { { <<t>> \o f : t \in PlistTrees(k), f \in PlistForests(n - k) } :
                     k \in 1..n }

RECURSIVE NuTrees(_), NuForests(_)
NuTrees(n) ==
    IF n <= 0 THEN {}
    ELSE (IF n = 1 THEN NuElemLeaves ELSE {}) \cup
         { NuList(f) : f \in NuForests(n - 1) } \cup
         { NuRecord(Record(KeysOf(Len(f)), f)) : f \in NuForests(n - 1) } \cup
         { NuLazyRecord(Ok(NuRecord(Record(KeysOf(Len(f)), f)))) : f \in NuForests(n - 1) }
NuForests(n) ==
    IF n <= 0 THEN { <<>> }
    ELSE UNION { { <<t>> \o f : t \in NuTrees(k), f \in NuForests(n - k) } :
                     k \in 1..n }

PlistInputs == PlistLeaves \cup UNION { PlistTrees(n) : n \in 1..MaxNodes }
NuInputs == NuLeaves \cup UNION { NuTrees(n) : n \in 1..MaxNodes }

(***************************************************************************)
(* The plugin.  A call of a command hands the input to its converter; the  *)
(* value a call returns may be piped into the other command.               *)
(***************************************************************************)
NoValue == [none |-> TRUE]

Init ==
    /\ \/ name = "from plist" /\ input \in PlistInputs
       \/ name = "to plist" /\ input \in NuInputs
    /\ output = NoValue
    /\ stage = "called"
    /\ origin = NoValue

\* run, name = "from plist"
FromPlist ==
    /\ stage = "called"
    /\ name = "from plist"
    /\ output' = convert_plist_value(input, "head")
    /\ stage' = "returned"
    /\ UNCHANGED <<name, input, origin>>

\* run, any other name
ToPlist ==
    /\ stage = "called"
    /\ name # "from plist"
    /\ output' = convert_nu_value(input)
    /\ stage' = "returned"
    /\ UNCHANGED <<name, input, origin>>

\* the pipeline `from plist | to plist`
PipeToPlist ==
    /\ stage = "returned"
    /\ name = "from plist"
    /\ output.ok
    /\ name' = "to plist"
    /\ input' = output.val
    /\ origin' = input
    /\ output' = NoValue
    /\ stage' = "called"

\* the pipeline `to plist | from plist`
PipeFromPlist ==
    /\ stage = "returned"
    /\ name = "to plist"
    /\ output.ok
    /\ name' = "from plist"
    /\ input' = output.val
    /\ origin' = input
    /\ output' = NoValue
    /\ stage' = "called"

Next == FromPlist \/ ToPlist \/ PipeToPlist \/ PipeFromPlist

Spec == Init /\ [][Next]_vars

(***************************************************************************)
(* The vocabulary of the properties.                                       *)
(***************************************************************************)
Returned(cmd) == stage = "returned" /\ name = cmd
Piped == origin # NoValue

InI64Range(i) == IntLe(I64Min, i) /\ IntLe(i, I64Max)

IsIntegerRangeError(e, i) ==
    /\ e.label = "ERROR from plugin"
    /\ e.msg = [text |-> "Cannot convert to i64", i |-> i]

IsUnconvertibleValueError(e, v) ==
    /\ e.label = "ERROR from plugin"
    /\ e.msg = [text |-> "is not convertible", value |-> v]

MappedVariants ==
    { "String", "Bool", "Float", "Int", "Filesize", "Binary", "Date", "List",
      "Record", "LazyRecord" }

\* the errors of the failing leaves of a tree, in depth-first order
RECURSIVE PlistFailures(_), PlistFailuresOf(_)
PlistFailures(v) ==
    IF v.plist = "Array" THEN PlistFailuresOf(v.arr)
    ELSE IF v.plist = "Dictionary"
    THEN PlistFailuresOf([k \in 1..Len(v.dict) |-> v.dict[k].value])
    ELSE IF v.plist = "Integer" /\ ~InI64Range(v.i)
    THEN <<build_label_error([text |-> "Cannot convert to i64", i |-> v.i], "head")>>
    ELSE <<>>
PlistFailuresOf(vs) ==
    IF vs = <<>> THEN <<>> ELSE PlistFailures(Head(vs)) \o PlistFailuresOf(Tail(vs))

RECURSIVE NuFailures(_), NuFailuresOf(_)
NuFailures(v) ==
    IF v.nu = "List" THEN NuFailuresOf(v.vals)
    ELSE IF v.nu = "Record" THEN NuFailuresOf(v.rec.vals)
    ELSE IF v.nu = "LazyRecord"
    THEN IF ~v.collected.ok THEN <<LabeledErrorFromShellError(v.collected.err)>>
         ELSE IF v.collected.val.nu # "Record"
         THEN <<build_label_error([shell |-> "CantConvert"], "test_data")>>
         ELSE NuFailuresOf(v.collected.val.rec.vals)
    ELSE IF v.nu \notin MappedVariants
    THEN <<build_label_error([text |-> "is not convertible", value |-> v], "test_data")>>
    ELSE <<>>
NuFailuresOf(vs) ==
    IF vs = <<>> THEN <<>> ELSE NuFailures(Head(vs)) \o NuFailuresOf(Tail(vs))

IsPlistContainer(v) == v.plist \in { "Array", "Dictionary" }
IsNuContainer(v) ==
    \/ v.nu \in { "List", "Record" }
    \/ v.nu = "LazyRecord" /\ v.collected.ok /\ v.collected.val.nu = "Record"

\* C1: decoding an Integer inside the i64 range gives the Int of the same value;
\* decoding one outside it fails with the range error and gives no value.
C1_IntegerNarrowing ==
    (Returned("from plist") /\ input.plist = "Integer") =>
        IF InI64Range(input.i)
        THEN /\ output.ok
             /\ output.val.nu = "Int"
             /\ I64Value(output.val.int) = input.i
        ELSE /\ ~output.ok
             /\ DOMAIN output = { "ok", "err" }
             /\ IsIntegerRangeError(output.err, input.i)

C1_Witness ==
    /\ Returned("from plist")
    /\ input = PlistInteger(Pos(Pow2(I64Bits - 1)))
    /\ ~output.ok

\* C2: encoding a value of a variant without a mapping fails with the
\* not-convertible error and gives no value.
C2_UnmappedVariantFails ==
    (Returned("to plist") /\ input.nu \notin MappedVariants) =>
        /\ ~output.ok
        /\ DOMAIN output = { "ok", "err" }
        /\ IsUnconvertibleValueError(output.err, input)

C2_Witness ==
    /\ Returned("to plist")
    /\ input = NuNothing
    /\ ~output.ok

\* C3: in both directions, a container with a failing leaf at any depth fails
\* as a whole, with the error of its first failing leaf in element order.
C3_FirstFailureWins ==
    /\ (Returned("from plist") /\ IsPlistContainer(input)
            /\ PlistFailures(input) # <<>>) =>
           output = Err(PlistFailures(input)[1])
    /\ (Returned("to plist") /\ IsNuContainer(input) /\ NuFailures(input) # <<>>) =>
           output = Err(NuFailures(input)[1])

C3_Witness ==
    /\ Returned("to plist")
    /\ input = NuList(<<NuRange, NuNothing>>)
    /\ ~output.ok
    /\ output.err.msg.value = NuRange

\* does the tree hold an Integer outside the i64 range?
RECURSIVE HasWideInteger(_)
HasWideInteger(v) ==
    IF v.plist = "Array" THEN \E k \in 1..Len(v.arr) : HasWideInteger(v.arr[k])
    ELSE IF v.plist = "Dictionary"
    THEN \E k \in 1..Len(v.dict) : HasWideInteger(v.dict[k].value)
    ELSE v.plist = "Integer" /\ ~InI64Range(v.i)

C5_IntRoundTrip ==
    /\ (Returned("to plist") /\ input.nu = "Int") =>
           output = Ok(PlistInteger(I64Value(input.int)))
    /\ (Returned("from plist") /\ Piped /\ origin.nu = "Int") =>
           /\ input.plist = "Integer"
           /\ output = Ok(origin)

C5_Witness ==
    /\ Returned("from plist")
    /\ origin = NuInt(<<1>> \o Zeros(I64Bits - 1))
    /\ input = PlistInteger(I64Min)
    /\ output = Ok(origin)

\* C6: decoding then encoding a String, Boolean, Real or Data leaf gives the
\* leaf back: the same variant with the same payload.
C6_LeafRoundTrip ==
    (Returned("to plist") /\ Piped
        /\ origin.plist \in { "String", "Boolean", "Real", "Data" }) =>
        output = Ok(origin)

C6_Witness ==
    /\ Returned("to plist")
    /\ origin = PlistReal(F64(0, 1024, Bits(9, 4) \o Concat16(<<7864, 20971, 34079>>)))
    /\ output = Ok(origin)

\* C7: a decoded Array or Dictionary has as many elements, in the same order,
\* each the decoding of its source, with the keys unchanged; an empty one
\* gives an empty List or Record.
C7_OrderAndCount ==
    (Returned("from plist") /\ output.ok) =>
        /\ input.plist = "Array" =>
              /\ output.val.nu = "List"
              /\ Len(output.val.vals) = Len(input.arr)
              /\ \A k \in 1..Len(input.arr) :
                     Ok(output.val.vals[k]) = convert_plist_value(input.arr[k], "head")
        /\ input.plist = "Dictionary" =>
              /\ output.val.nu = "Record"
              /\ Len(output.val.rec.cols) = Len(input.dict)
              /\ Len(output.val.rec.vals) = Len(input.dict)
              /\ \A k \in 1..Len(input.dict) :
                     /\ output.val.rec.cols[k] = input.dict[k].key
                     /\ Ok(output.val.rec.vals[k]) =
                            convert_plist_value(input.dict[k].value, "head")

C7_Witness ==
    /\ Returned("from plist")
    /\ input = PlistDictionary(<<Entry("b", PlistString("a")),
                                 Entry("a", PlistUid(Nat16(<<7>>)))>>)
    /\ output.ok
    /\ output.val.rec.cols = <<"b", "a">>

F64NatValue(f) ==
    LET mant == <<1>> \o f.frac
        e == f.exp - F64ExpBias
    IN  IF f.exp = 0 /\ f.frac = Zeros(F64FracBits) THEN Some(<<>>)
        ELSE IF f.sign = 1 \/ f.exp = 0 \/ f.exp = 2047 \/ e < 0 THEN None
        ELSE IF e >= F64FracBits THEN Some(mant \o Zeros(e - F64FracBits))
        ELSE IF SubSeq(mant, e + 2, F64MantBits) = Zeros(F64FracBits - e)
        THEN Some(SubSeq(mant, 1, e + 1))
        ELSE None

\* C9 as stated: decoding a Uid never fails and gives the Float whose value is
\* the value of the identifier.
C9_UidValueExact ==
    (Returned("from plist") /\ input.plist = "Uid") =>
        /\ output.ok
        /\ output.val.nu = "Float"
        /\ F64NatValue(output.val.float) = Some(input.uid)

\* C9 as amended: decoding a Uid never fails and gives a Float that denotes a
\* natural number: the identifier itself when it has at most 53 significant
\* binary digits, and otherwise the identifier rounded to 53 significant
\* digits, at most half a unit of the last kept digit away.
C9_UidValueRounded ==
    (Returned("from plist") /\ input.plist = "Uid") =>
        /\ output.ok
        /\ output.val.nu = "Float"
        /\ LET f == F64NatValue(output.val.float)
               half == Pow2(Len(input.uid) - F64MantBits - 1)
           IN  /\ f.some
               /\ SignificantBits(f.v) <= F64MantBits
               /\ SignificantBits(input.uid) <= F64MantBits => f.v = input.uid
               /\ SignificantBits(input.uid) > F64MantBits =>
                      /\ NatLe(f.v, NatAdd(input.uid, half))
                      /\ NatLe(input.uid, NatAdd(f.v, half))

C9_Witness ==
    /\ Returned("from plist")
    /\ input = PlistUid(Nat16(<<188, 24910>>))
    /\ output.ok
    /\ F64NatValue(output.val.float) = Some(Nat16(<<188, 24910>>))

\* the tree holds nothing the decoder fails on or turns into Nothing
RECURSIVE InDecoderDomain(_)
InDecoderDomain(v) ==
    IF v.plist = "Array" THEN \A k \in 1..Len(v.arr) : InDecoderDomain(v.arr[k])
    ELSE IF v.plist = "Dictionary"
    THEN \A k \in 1..Len(v.dict) : InDecoderDomain(v.dict[k].value)
    ELSE IF v.plist = "Integer" THEN InI64Range(v.i)
    ELSE v.plist \in { "String", "Boolean", "Real", "Date", "Data" }

RECURSIVE HasNothing(_)
HasNothing(v) ==
    IF v.nu = "List" THEN \E k \in 1..Len(v.vals) : HasNothing(v.vals[k])
    ELSE IF v.nu = "Record" THEN \E k \in 1..Len(v.rec.vals) : HasNothing(v.rec.vals[k])
    ELSE v.nu = "Nothing"

\* the value with every Filesize as an Int, every LazyRecord as its Record and
\* every Date at offset zero
RECURSIVE Normalized(_)
Normalized(v) ==
    CASE v.nu = "Filesize" -> NuInt(v.filesize)
      [] v.nu = "Date" -> NuDate(DateTime(v.date.secs, v.date.nanos, 0))
      [] v.nu = "List" -> NuList([k \in 1..Len(v.vals) |-> Normalized(v.vals[k])])
      [] v.nu = "Record" ->
            NuRecord(Record(v.rec.cols,
                            [k \in 1..Len(v.rec.vals) |-> Normalized(v.rec.vals[k])]))
      [] v.nu = "LazyRecord" -> Normalized(v.collected.val)
      [] OTHER -> v

\* C10: what the encoder returns holds no Uid, no unnamed variant and no
\* Integer outside the i64 range; decoding it succeeds, gives no Nothing, and
\* gives the encoded value back but for Filesize, LazyRecord and Date offsets.
C10_EncoderOutputDecodes ==
    /\ (Returned("to plist") /\ output.ok) => InDecoderDomain(output.val)
    /\ (Returned("from plist") /\ Piped) =>
           /\ InDecoderDomain(input)
           /\ output = Ok(Normalized(origin))
           /\ ~HasNothing(output.val)

C10_Witness ==
    /\ Returned("from plist")
    /\ Piped
    /\ origin = NuLazyRecord(Ok(NuRecord(Record(<<"b", "a">>,
                     <<NuFilesize(I64Pattern(Nat16(<<1024>>))),
                       NuDate(DateTime(1, 1, 3600))>>))))
    /\ output = Ok(NuRecord(Record(<<"b", "a">>,
                     <<NuInt(I64Pattern(Nat16(<<1024>>))), NuDate(DateTime(1, 1, 0))>>)))

====
